---- MODULE Spec2Model ----
(***************************************************************************)
(* Model of the two schema-introspection scripts graphql_schema.py and     *)
(* graphql_schema2.py.  One run of main() is a straight line               *)
(*     requests.post -> response.json() -> 'errors' check -> ['data']      *)
(*       -> print_schema -> open(path, 'w') -> write -> with-exit -> print *)
(* with no try/except anywhere: the first exception ends the run.          *)
(* The network, the endpoint, the graphql library and the filesystem are   *)
(* the environment; each of their outcomes is a nondeterministic choice.   *)
(* The file 'schema.graphql' outlives a run, so runs follow one another on *)
(* the same filesystem (NextRun).                                          *)
(***************************************************************************)
EXTENDS Integers, Sequences, FiniteSets, TLC

VARIABLES
    script,         \* the script whose main() is running
    pc,             \* position of the run in main()
    posts,          \* JSON bodies of the HTTP POSTs issued in this run
    response,       \* what requests.post returned
    response_json,  \* response.json()
    schema_data,    \* fetch_schema's return value
    schema_json,    \* print_schema's return value
    fs,             \* the filesystem: path -> text of the file
    fsBefore,       \* fs when the run started
    handle,         \* TRUE while schema_file is open
    pending,        \* TRUE while an exception raised in the with-body unwinds
    exc,            \* the exception that ended the run
    stdout,         \* lines printed
    trace,          \* statements of main() executed in this run, in order
    choices,        \* what the environment did in this run
    prev            \* summary of the previous run

vars == <<script, pc, posts, response, response_json, schema_data, schema_json,
          fs, fsBefore, handle, pending, exc, stdout, trace, choices, prev>>

----------------------------------------------------------------------------
(* Bounds of the model *)

\* longest `errors` list a response carries
MaxErrors == 2
\* number of distinct `data` payloads an endpoint may return
MaxData == 2
\* longest text the output file holds before the first run
MaxOldLen == 3

----------------------------------------------------------------------------
(* Constants of the scripts *)

Scripts == {"graphql_schema.py", "graphql_schema2.py"}

introspection_query == "query IntrospectionQuery { __schema { queryType mutationType subscriptionType types { ...FullType } } }"

introspection_query2 == "query IntrospectionQuery { __schema { types { name kind fields } } }"

endpoint_url == "https://your-graphql-endpoint.com/graphql"

\* the path main() passes to save_schema
schema_path == "schema.graphql"

----------------------------------------------------------------------------
(* Values *)

EmptyObj == [k \in {} |-> 0]

ErrorMsgs == {"e1", "e2"}

RECURSIVE SeqsUpTo(_, _)
SeqsUpTo(S, n) ==
    IF n = 0 THEN {<<>>}
    ELSE LET shorter == SeqsUpTo(S, n - 1)
         IN  shorter \cup {Append(s, x) : s \in shorter, x \in S}

\* values of the `errors` member
ErrorLists == SeqsUpTo(ErrorMsgs, MaxErrors)

\* values of the `data` member (opaque payloads)
DataValues == 1..MaxData

\* decoded JSON objects: each of `errors` and `data` present or absent
JsonObjects ==
    {EmptyObj}
      \cup {[errors |-> e] : e \in ErrorLists}
      \cup {[data |-> d] : d \in DataValues}
      \cup {[errors |-> e, data |-> d] : e \in ErrorLists, d \in DataValues}

\* response bodies: not JSON at all (an HTML page), a JSON document that is
\* not an object (a list, a string, a number, null), or a JSON object
Bodies ==
    {[kind |-> "html", members |-> EmptyObj],
     [kind |-> "json_nonobject", members |-> EmptyObj]}
      \cup {[kind |-> "json_object", members |-> o] : o \in JsonObjects}

StatusCodes == {200, 500}

Responses == [status_code : StatusCodes, text : Bodies]

NoResponse == [status_code |-> 0, text |-> [kind |-> "none", members |-> EmptyObj]]

NoExc == [type |-> "none", args |-> <<>>]

NoChoices == [net |-> "n/a", codec |-> "n/a", open |-> "n/a", write |-> "n/a", wlen |-> 0]

NoPrev == [ran |-> FALSE, response |-> NoResponse, choices |-> NoChoices,
           exc |-> NoExc, fs |-> EmptyObj, schema_json |-> <<>>]

\* the output file before the first run: absent, or some older text
InitialFs ==
    {EmptyObj} \cup {(schema_path :> [i \in 1..n |-> "old"]) : n \in 0..MaxOldLen}

----------------------------------------------------------------------------
(* The collaborators *)

\* Json with a lenient decoder: a body that is not JSON decodes to {}
JsonLenient(resp) ==
    IF resp.text.kind = "html"
    THEN [ok |-> TRUE, kind |-> "json_object", value |-> EmptyObj]
    ELSE [ok |-> TRUE, kind |-> resp.text.kind, value |-> resp.text.members]

\* Json behind a raise_for_status()-like check: a non-2xx response is refused
JsonChecksStatus(resp) ==
    IF resp.text.kind = "html" \/ resp.status_code >= 400
    THEN [ok |-> FALSE, kind |-> "none", value |-> EmptyObj]
    ELSE [ok |-> TRUE, kind |-> resp.text.kind, value |-> resp.text.members]

\* response.json(): the decoded body; raises for a body that is not JSON.
\* The status code of the response is never looked at.
Json(resp) ==
    IF resp.text.kind = "html"
    THEN [ok |-> FALSE, kind |-> "none", value |-> EmptyObj]
    ELSE [ok |-> TRUE, kind |-> resp.text.kind, value |-> resp.text.members]

\* print_schema(schema_data): the SDL text of a payload, one token per
\* element; a function of the payload alone
print_schema(d) == [i \in 1..d |-> "type"]

----------------------------------------------------------------------------
(* fetch_schema *)

\* RequestBody with the second script sending its second query
RequestBodySecondQuery(s) ==
    IF s = "graphql_schema2.py"
    THEN [query |-> introspection_query2]
    ELSE [query |-> introspection_query]

\* json={'query': introspection_query}: both scripts send the name
\* introspection_query (imported in the first, defined in the second)
RequestBody(s) == [query |-> introspection_query]

\* 'errors' in response_json
HasErrors(rj) == "errors" \in DOMAIN rj

\* ErrorsException carrying the first error only
ErrorsExceptionFirst(rj) ==
    [type |-> "Exception",
     args |-> <<IF rj["errors"] = <<>> THEN <<>> ELSE <<rj["errors"][1]>> >>]

\* Exception(response_json['errors'])
ErrorsException(rj) == [type |-> "Exception", args |-> <<rj["errors"]>>]

\* Raise with print_schema's exception caught and passed over
RaiseSwallowed(stage) == IF stage = "print_schema" THEN "open" ELSE "done"

\* main() and fetch_schema catch nothing: an exception raised by the
\* statement `stage` ends the run
Raise(stage) == "done"

----------------------------------------------------------------------------
(* save_schema *)

\* OpenW in append mode, open(file_path, 'a')
OpenAppend(f, path) ==
    [p \in DOMAIN f \cup {path} |-> IF p \in DOMAIN f THEN f[p] ELSE <<>>]

\* open(file_path, 'w'): creates the file or truncates it to nothing
OpenW(f, path) == [p \in DOMAIN f \cup {path} |-> IF p = path THEN <<>> ELSE f[p]]

\* WriteText ending the text with a newline, as print(text, file=...) would
WriteTextNewline(content, text) == content \o text \o <<"\n">>

\* schema_file.write(text): the text goes after what the file holds
WriteText(content, text) == content \o text

\* the first k elements of a text, all that reached the file when a write fails
Prefix(text, k) == SubSeq(text, 1, k)

\* WithExit of an explicit close() after the write, skipped by an exception
WithExitLeak(raised) == raised

\* leaving the with block closes schema_file, exception or not
WithExit(raised) == FALSE

\* Propagates of a block that suppresses the exception of its body
PropagatesNever(raised) == FALSE

\* the with block does not suppress an exception of its body
Propagates(raised) == raised

IsPrefix(s, t) == Len(s) <= Len(t) /\ s = SubSeq(t, 1, Len(s))

----------------------------------------------------------------------------
(* The run *)

Init ==
    /\ script \in Scripts
    /\ pc = "post"
    /\ posts = <<>>
    /\ response = NoResponse
    /\ response_json = [kind |-> "none", value |-> EmptyObj]
    /\ schema_data = 0
    /\ schema_json = <<>>
    /\ fs \in InitialFs
    /\ fsBefore = fs
    /\ handle = FALSE
    /\ pending = FALSE
    /\ exc = NoExc
    /\ stdout = <<>>
    /\ trace = <<>>
    /\ choices = NoChoices
    /\ prev = NoPrev

\* response = requests.post(endpoint_url, json={'query': introspection_query})
Post ==
    /\ pc = "post"
    /\ posts' = Append(posts, [url |-> endpoint_url, json |-> RequestBody(script)])
    /\ trace' = Append(trace, "post")
    /\ \/ \E r \in Responses :
            /\ response' = r
            /\ choices' = [choices EXCEPT !.net = "ok"]
            /\ pc' = "json"
            /\ exc' = exc
       \/ /\ exc' = [type |-> "ConnectionError", args |-> <<>>]
          /\ choices' = [choices EXCEPT !.net = "fail"]
          /\ pc' = Raise("post")
          /\ response' = response
    /\ UNCHANGED <<script, response_json, schema_data, schema_json, fs, fsBefore,
                   handle, pending, stdout, prev>>

\* response_json = response.json()
JsonDecode ==
    /\ pc = "json"
    /\ trace' = Append(trace, "json")
    /\ LET j == Json(response)
       IN  IF j.ok
           THEN /\ response_json' = [kind |-> j.kind, value |-> j.value]
                /\ pc' = "validate"
                /\ exc' = exc
           ELSE /\ exc' = [type |-> "JSONDecodeError", args |-> <<>>]
                /\ pc' = Raise("json")
                /\ response_json' = response_json
    /\ UNCHANGED <<script, posts, response, schema_data, schema_json, fs, fsBefore,
                   handle, pending, stdout, choices, prev>>

\* if 'errors' in response_json: raise Exception(response_json['errors'])
\* return response_json['data']
Validate ==
    /\ pc = "validate"
    /\ trace' = Append(trace, "validate")
    /\ IF response_json.kind # "json_object"
       THEN \* `in` or the subscript fails on a list, a string, a number, None
            /\ exc' = [type |-> "TypeError", args |-> <<>>]
            /\ pc' = Raise("validate")
            /\ schema_data' = schema_data
       ELSE IF HasErrors(response_json.value)
       THEN /\ exc' = ErrorsException(response_json.value)
            /\ pc' = Raise("validate")
            /\ schema_data' = schema_data
       ELSE IF "data" \notin DOMAIN response_json.value
       THEN /\ exc' = [type |-> "KeyError", args |-> <<>>]
            /\ pc' = Raise("validate")
            /\ schema_data' = schema_data
       ELSE /\ schema_data' = response_json.value["data"]
            /\ pc' = "print_schema"
            /\ exc' = exc
    /\ UNCHANGED <<script, posts, response, response_json, schema_json, fs, fsBefore,
                   handle, pending, stdout, choices, prev>>

\* schema_json = print_schema(schema_data); the library decides whether it
\* accepts the payload it is handed
PrintSchema ==
    /\ pc = "print_schema"
    /\ trace' = Append(trace, "print_schema")
    /\ \/ /\ schema_json' = print_schema(schema_data)
          /\ choices' = [choices EXCEPT !.codec = "ok"]
          /\ pc' = "open"
          /\ exc' = exc
       \/ /\ exc' = [type |-> "PrintSchemaError", args |-> <<>>]
          /\ choices' = [choices EXCEPT !.codec = "fail"]
          /\ pc' = Raise("print_schema")
          /\ schema_json' = schema_json
    /\ UNCHANGED <<script, posts, response, response_json, schema_data, fs, fsBefore,
                   handle, pending, stdout, prev>>

\* with open(file_path, 'w') as schema_file:
Open ==
    /\ pc = "open"
    /\ trace' = Append(trace, "open")
    /\ \/ /\ fs' = OpenW(fs, schema_path)
          /\ handle' = TRUE
          /\ choices' = [choices EXCEPT !.open = "ok"]
          /\ pc' = "write"
          /\ exc' = exc
       \/ /\ exc' = [type |-> "OSError", args |-> <<>>]
          /\ choices' = [choices EXCEPT !.open = "fail"]
          /\ pc' = Raise("open")
          /\ UNCHANGED <<fs, handle>>
    /\ UNCHANGED <<script, posts, response, response_json, schema_data, schema_json,
                   fsBefore, pending, stdout, prev>>

\* schema_file.write(schema_json)
Write ==
    /\ pc = "write"
    /\ trace' = Append(trace, "write")
    /\ pc' = "close"
    /\ \/ /\ fs' = [fs EXCEPT ![schema_path] = WriteText(@, schema_json)]
          /\ choices' = [choices EXCEPT !.write = "ok"]
          /\ pending' = FALSE
       \/ \E k \in 0..Len(schema_json) :
            /\ fs' = [fs EXCEPT ![schema_path] = WriteText(@, Prefix(schema_json, k))]
            /\ choices' = [choices EXCEPT !.write = "fail", !.wlen = k]
            /\ pending' = TRUE
    /\ UNCHANGED <<script, posts, response, response_json, schema_data, schema_json,
                   fsBefore, handle, exc, stdout, prev>>

\* the end of the with block, reached normally or by the write's exception
Close ==
    /\ pc = "close"
    /\ trace' = Append(trace, "close")
    /\ handle' = WithExit(pending)
    /\ pending' = FALSE
    /\ IF Propagates(pending)
       THEN /\ exc' = [type |-> "OSError", args |-> <<>>]
            /\ pc' = Raise("write")
       ELSE /\ exc' = exc
            /\ pc' = "print"
    /\ UNCHANGED <<script, posts, response, response_json, schema_data, schema_json,
                   fs, fsBefore, stdout, choices, prev>>

\* print('Schema saved successfully.')
PrintDone ==
    /\ pc = "print"
    /\ trace' = Append(trace, "print")
    /\ stdout' = Append(stdout, "Schema saved successfully.")
    /\ pc' = "done"
    /\ UNCHANGED <<script, posts, response, response_json, schema_data, schema_json,
                   fs, fsBefore, handle, pending, exc, choices, prev>>

\* the process has ended; either script is started again on the same filesystem
NextRun ==
    /\ pc = "done"
    /\ prev' = [ran |-> TRUE, response |-> response, choices |-> choices,
                exc |-> exc, fs |-> fs, schema_json |-> schema_json]
    /\ script' \in Scripts
    /\ pc' = "post"
    /\ posts' = <<>>
    /\ response' = NoResponse
    /\ response_json' = [kind |-> "none", value |-> EmptyObj]
    /\ schema_data' = 0
    /\ schema_json' = <<>>
    /\ fsBefore' = fs
    /\ handle' = FALSE
    /\ pending' = FALSE
    /\ exc' = NoExc
    /\ stdout' = <<>>
    /\ trace' = <<>>
    /\ choices' = NoChoices
    /\ fs' = fs

Next ==
    \/ Post
    \/ JsonDecode
    \/ Validate
    \/ PrintSchema
    \/ Open
    \/ Write
    \/ Close
    \/ PrintDone
    \/ NextRun

Spec == Init /\ [][Next]_vars

----------------------------------------------------------------------------
(* Vocabulary of the properties *)

\* the statements of a run, in program order
Stages == <<"post", "json", "validate", "print_schema", "open", "write", "close", "print">>

FirstStages(n) == SubSeq(Stages, 1, n)

Done == pc = "done"

Failed == Done /\ exc.type # "none"

\* the decoded members of the response body
Members == response.text.members

ErrorsPresent == response.text.kind = "json_object" /\ "errors" \in DOMAIN Members

ErrorsNonEmpty == ErrorsPresent /\ Members["errors"] # <<>>

DataPresent == response.text.kind = "json_object" /\ "data" \in DOMAIN Members

\* fsBefore with the output file holding `text`: nothing else created or changed
WithOutput(text) ==
    [p \in DOMAIN fsBefore \cup {schema_path} |->
        IF p = schema_path THEN text ELSE fsBefore[p]]

\* the statement right after the validation step has run
JustValidated == Len(trace) = 3 /\ response_json.kind = "json_object"

\* two runs in which the environment behaved alike wherever both consulted it
Compatible(c, d) ==
    /\ c.net = d.net
    /\ c.codec = d.codec \/ "n/a" \in {c.codec, d.codec}
    /\ c.open = d.open \/ "n/a" \in {c.open, d.open}
    /\ c.write = d.write \/ "n/a" \in {c.write, d.write}
    /\ (c.write = "fail" /\ d.write = "fail") => c.wlen = d.wlen

----------------------------------------------------------------------------
(* C1: a response with a non-empty `errors` list ends the run in            *)
(* fetch_schema: print_schema and save_schema are never reached, the        *)
(* output file is neither created nor changed, and the exception raised     *)
(* carries the response's whole `errors` list, unchanged.                   *)
C1_ErrorsAbort ==
    ErrorsNonEmpty =>
        /\ IsPrefix(trace, FirstStages(3))
        /\ fs = fsBefore
        /\ handle = FALSE
        /\ stdout = <<>>
        /\ Done => /\ trace = FirstStages(3)
                   /\ exc = [type |-> "Exception", args |-> <<Members["errors"]>>]

C1_Witness ==
    /\ Done
    /\ ErrorsNonEmpty
    /\ Members["errors"] = <<"e2", "e1">>
    /\ DataPresent
    /\ exc.type = "Exception"
    /\ schema_path \in DOMAIN fsBefore

(* C2: validation fails exactly when `errors` is present and non-empty;     *)
(* with `errors` absent or empty it returns `data` unchanged and the run    *)
(* goes on to print_schema.                                                 *)
C2_FailsIffNonEmpty ==
    (JustValidated /\ DataPresent) =>
        /\ exc.type = "Exception" <=> ErrorsNonEmpty
        /\ ~ErrorsNonEmpty => /\ exc = NoExc
                              /\ schema_data = Members["data"]
                              /\ pc = "print_schema"

(* What the membership test of fetch_schema does instead: validation fails  *)
(* with the errors exception exactly when the decoded object has an         *)
(* `errors` key, its list empty or not, and the exception carries that      *)
(* list; with the key absent and `data` present it returns `data` unchanged *)
(* and the run goes on to print_schema; with both absent it fails with      *)
(* KeyError.                                                                *)
C2_FailsIffPresent ==
    JustValidated =>
        /\ exc.type = "Exception" <=> ErrorsPresent
        /\ ErrorsPresent => /\ exc.args = <<Members["errors"]>>
                            /\ pc = "done"
        /\ (~ErrorsPresent /\ DataPresent) => /\ exc = NoExc
                                              /\ schema_data = Members["data"]
                                              /\ pc = "print_schema"
        /\ (~ErrorsPresent /\ ~DataPresent) => /\ exc.type = "KeyError"
                                               /\ pc = "done"

\* the run that C2 forbids: an empty `errors` list beside `data` ends the run
EmptyErrorsAbort ==
    /\ JustValidated
    /\ DataPresent
    /\ ErrorsPresent
    /\ Members["errors"] = <<>>
    /\ exc = [type |-> "Exception", args |-> << <<>> >>]
    /\ pc = "done"

(* C3, as stated: at the end of every failed run the output file is what    *)
(* it was before the run.                                                   *)
C3_FailureLeavesFile == Failed => fs = fsBefore

(* C3, amended: a failed run stops at the statement that failed, prints     *)
(* nothing and holds no file open.  A failure of the network call, the      *)
(* decoding, the validation, print_schema or the opening of the file leaves *)
(* the output file what it was before the run; a failure of the write,      *)
(* after the file was opened, leaves it truncated and holding a prefix of   *)
(* the SDL text (possibly empty, possibly whole), its prior text lost.      *)
C3_FailureOutcome ==
    Failed =>
        /\ stdout = <<>>
        /\ handle = FALSE
        /\ \/ exc.type = "ConnectionError" /\ trace = FirstStages(1)
           \/ exc.type = "JSONDecodeError" /\ trace = FirstStages(2)
           \/ exc.type \in {"TypeError", "Exception", "KeyError"} /\ trace = FirstStages(3)
           \/ exc.type = "PrintSchemaError" /\ trace = FirstStages(4)
           \/ exc.type = "OSError" /\ trace \in {FirstStages(5), FirstStages(7)}
        /\ IF "write" \in {trace[i] : i \in DOMAIN trace}
           THEN \E k \in 0..Len(schema_json) : fs = WithOutput(Prefix(schema_json, k))
           ELSE fs = fsBefore

C3_Witness ==
    /\ Failed
    /\ exc.type = "OSError"
    /\ trace = FirstStages(7)
    /\ schema_path \in DOMAIN fsBefore
    /\ Len(fsBefore[schema_path]) = 3
    /\ Len(schema_json) = 2
    /\ Len(fs[schema_path]) = 1

(* C4: a failed network call ends the run with the connection error, and a  *)
(* body that is not JSON with the decoding error; both end it inside        *)
(* fetch_schema, before the validation, print_schema and save_schema, and   *)
(* the output file is not created, truncated or changed.                    *)
C4_FetchFailures ==
    /\ choices.net = "fail" =>
          /\ Done
          /\ exc.type = "ConnectionError"
          /\ trace = FirstStages(1)
          /\ fs = fsBefore /\ handle = FALSE /\ stdout = <<>>
    /\ response.text.kind = "html" =>
          /\ IsPrefix(trace, FirstStages(2))
          /\ fs = fsBefore /\ handle = FALSE /\ stdout = <<>>
          /\ Done => exc.type = "JSONDecodeError" /\ trace = FirstStages(2)

C4_Witness ==
    /\ prev.ran
    /\ prev.choices.net = "fail"
    /\ prev.exc.type = "ConnectionError"
    /\ Done
    /\ response.text.kind = "html"
    /\ exc.type = "JSONDecodeError"
    /\ schema_path \in DOMAIN fs
    /\ fs = prev.fs

(* C5: the statements of a run execute in program order, each only after    *)
(* the one before it completed without an exception: the file is opened     *)
(* only after the fetch, the validation and print_schema succeeded, the     *)
(* confirmation is printed only after save_schema returned with the whole   *)
(* SDL text written, and a run that fails never prints it.                  *)
C5_StageOrder ==
    /\ IsPrefix(trace, Stages)
    /\ ~Done => exc = NoExc
    /\ Len(trace) >= 5 =>
          /\ choices.net = "ok"
          /\ ~ErrorsPresent /\ DataPresent
          /\ schema_data = Members["data"]
          /\ choices.codec = "ok"
          /\ schema_json = print_schema(schema_data)
    /\ stdout # <<>> =>
          /\ stdout = <<"Schema saved successfully.">>
          /\ trace = Stages
          /\ choices.open = "ok" /\ choices.write = "ok"
          /\ fs[schema_path] = schema_json
          /\ handle = FALSE
          /\ exc = NoExc
    /\ Failed => stdout = <<>>

C5_Witness ==
    /\ Done
    /\ exc = NoExc
    /\ trace = Stages
    /\ stdout = <<"Schema saved successfully.">>
    /\ Len(schema_json) = 2

(* C6: two successful runs in a row that receive the same response body     *)
(* leave the same text in the output file, whatever it held before.         *)
C6_Idempotent ==
    (/\ prev.ran /\ prev.exc = NoExc
     /\ Done /\ exc = NoExc
     /\ prev.response.text = response.text) =>
        /\ fs = prev.fs
        /\ fs[schema_path] = schema_json
        /\ schema_json = prev.schema_json

C6_Witness ==
    /\ prev.ran /\ prev.exc = NoExc
    /\ Done /\ exc = NoExc
    /\ prev.response.text = response.text
    /\ Len(fs[schema_path]) = 2
    /\ fs = prev.fs

(* C7: once save_schema's write has succeeded the output file holds exactly *)
(* the SDL text, whatever it held before (nothing, an empty, a shorter or a *)
(* longer text), and no other file was created or changed.                  *)
C7_SaveExact ==
    choices.write = "ok" =>
        /\ fs = WithOutput(schema_json)
        /\ DOMAIN fs = {schema_path}

C7_Witness ==
    /\ pc = "print"
    /\ choices.write = "ok"
    /\ schema_path \in DOMAIN fsBefore
    /\ Len(fsBefore[schema_path]) = 3
    /\ Len(schema_json) = 1
    /\ fs[schema_path] = schema_json

(* C8: a run issues exactly one POST once it has reached the fetch and none *)
(* before, never a second one after any failure, and the body is always     *)
(* {"query": introspection_query}, never introspection_query2.              *)
C8_SinglePost ==
    /\ Len(posts) = (IF trace = <<>> THEN 0 ELSE 1)
    /\ \A i \in DOMAIN posts :
          /\ posts[i].url = endpoint_url
          /\ posts[i].json = [query |-> introspection_query]
          /\ posts[i].json.query # introspection_query2

C8_Witness ==
    /\ Failed
    /\ script = "graphql_schema2.py"
    /\ exc.type = "OSError"
    /\ Len(posts) = 1
    /\ prev.ran /\ prev.exc.type = "ConnectionError"

(* C9: the file is open only between the opening and the end of the with    *)
(* block of save_schema, and in no final state of a run, the write having   *)
(* succeeded or failed.                                                     *)
C9_HandleReleased ==
    /\ handle => pc \in {"write", "close"}
    /\ pc \in {"write", "close"} => handle
    /\ Done => ~handle

C9_Witness ==
    /\ Done
    /\ choices.write = "fail"
    /\ exc.type = "OSError"
    /\ ~handle

(* C10: the status code of the response has no influence: two runs in a row *)
(* that receive the same body under different status codes, the environment *)
(* otherwise behaving alike, end with the same exception or success and the *)
(* same output file; a non-2xx response with an HTML body ends in the       *)
(* decoding error, and a non-2xx response with a JSON object without        *)
(* `errors` is written like a successful one.                               *)
C10_StatusIgnored ==
    /\ (/\ prev.ran /\ Done
        /\ prev.choices.net = "ok" /\ choices.net = "ok"
        /\ prev.response.text = response.text
        /\ prev.response.status_code # response.status_code
        /\ Compatible(prev.choices, choices)) =>
            /\ exc = prev.exc
            /\ fs = prev.fs
    /\ (Done /\ response.status_code = 500 /\ response.text.kind = "html") =>
            exc.type = "JSONDecodeError"
    /\ (/\ Done /\ response.status_code = 500
        /\ ~ErrorsPresent /\ DataPresent
        /\ choices.codec = "ok" /\ choices.open = "ok" /\ choices.write = "ok") =>
            /\ exc = NoExc
            /\ fs[schema_path] = print_schema(Members["data"])
            /\ stdout # <<>>

C10_Witness ==
    /\ prev.ran /\ Done
    /\ prev.response.status_code = 200 /\ response.status_code = 500
    /\ prev.response.text = response.text
    /\ ~ErrorsPresent /\ DataPresent
    /\ Compatible(prev.choices, choices)
    /\ exc = NoExc /\ prev.exc = NoExc
    /\ stdout # <<>>

====
